---- MODULE Spec2Model ----
(***************************************************************************)
(* ObrolDB: the tool-calling agent loop (personaagent/agent.py), the tool  *)
(* registry and the database access gate (personaagent/tools.py) and the   *)
(* chat handler that stores the session history (app.py).                  *)
(*                                                                         *)
(* Text is a sequence of tokens (strings): "" is <<>>, concatenation is \o. *)
(* Names (table names, dict keys) are sequences of one-character strings,  *)
(* so that replace(), lower() and the substring test are computed.         *)
(***************************************************************************)
EXTENDS Integers, Sequences, FiniteSets, TLC

VARIABLES
    history,         \* st.session_state.messages
    pc,              \* position of the chat handler / ask()
    prompt,          \* the user's prompt of the running query
    messages,        \* ask(): the working message list
    messagesObj,     \* ask(): which list object `messages` names
    n_iterations,    \* ask(): loop counter
    max_iterations,  \* ask(): parameter
    pending,         \* ask(): tool calls of the response still to dispatch
    outcome,         \* ask(): value returned or error raised
    nInvoked,        \* number of llm.invoke calls of the running ask()
    histAtCall,      \* value of the caller's history when ask() was called
    nQueries,        \* queries handled so far in the session
    db,              \* committed contents of the database file
    openConns,       \* connections opened and not closed
    gate,            \* the last pass through with_sql_cursor of the running query
    tool,            \* the last call_tool of the running query
    page,            \* what the chat handler has put on the page for the last query
    table_name,      \* a tool's table_name argument
    safe,            \* a tool's local: table_name.replace('"', '""')
    parsed           \* what the engine reads from the interpolated identifier

vars == <<history, pc, prompt, messages, messagesObj, n_iterations, max_iterations, pending,
          outcome, nInvoked, histAtCall, nQueries, db, openConns, gate, tool, page,
          table_name, safe, parsed>>

askVars == <<history, pc, prompt, messages, messagesObj, n_iterations, max_iterations,
             pending, outcome, nInvoked, histAtCall, nQueries, page>>

identVars == <<table_name, safe, parsed>>

(***************************************************************************)
(* Bounds                                                                  *)
(***************************************************************************)
MaxRows == 2        \* rows a table can hold
MaxMaxIter == 2     \* largest max_iterations given to ask()
MaxCalls == 2       \* tool calls carried by one model response
MaxQueries == 2     \* queries of one session
MaxLeaks == 1       \* connections that may be left open
MaxFaults == 1      \* database calls that fail in one pass through the gate
MaxNameLen == 4     \* characters of a table name

(***************************************************************************)
(* Characters and names                                                    *)
(***************************************************************************)
Dq == "\""

NoErr == "none"

Customers == <<"C">>
Orders == <<"O">>
TableNames == {Customers, Orders}
\* creation order of the tables in sqlite_master
TableOrder == <<Customers, Orders>>

Min(a, b) == IF a < b THEN a ELSE b

\* mutation of Replace: the name is interpolated as it is
ReplaceNone(s) == s

RECURSIVE Replace(_)
\* str.replace('"', '""')
Replace(s) ==
    IF s = <<>> THEN <<>>
    ELSE (IF Head(s) = Dq THEN <<Dq, Dq>> ELSE <<Head(s)>>) \o Replace(Tail(s))

\* f'"{safe}"'
QuoteIdent(name) == <<Dq>> \o Replace(name) \o <<Dq>>

RECURSIVE ScanIdent(_, _)
\* SQLite's tokenizer inside a quoted identifier: "" is a literal quote, a
\* single " ends the identifier; an identifier that never ends is an error.
ScanIdent(s, acc) ==
    IF s = <<>> THEN [ok |-> FALSE, name |-> acc, rest |-> <<>>]
    ELSE IF Head(s) # Dq THEN ScanIdent(Tail(s), Append(acc, Head(s)))
    ELSE IF Len(s) >= 2 /\ s[2] = Dq THEN ScanIdent(Tail(Tail(s)), Append(acc, Dq))
    ELSE [ok |-> TRUE, name |-> acc, rest |-> Tail(s)]

\* the identifier text denotes a name only when it is one quoted identifier
\* and nothing follows it
ParseIdent(text) ==
    IF text = <<>> \/ Head(text) # Dq
    THEN [ok |-> FALSE, name |-> <<>>]
    ELSE LET Whole(r) == [ok |-> r.ok /\ r.rest = <<>>, name |-> r.name]
         IN  Whole(ScanIdent(Tail(text), <<>>))

(***************************************************************************)
(* The database engine as the sqlite3 module presents it                   *)
(***************************************************************************)
NoTable == [exists |-> FALSE, rows |-> 0]

Exists(d, name) == name \in TableNames /\ d[name].exists

\* table_info rows: name and pk flag of each column
TableInfo(name) ==
    IF name = Customers
    THEN << [name |-> <<"I", "D">>, pk |-> 1], [name |-> <<"N">>, pk |-> 0] >>
    ELSE << [name |-> <<"K">>, pk |-> 1], [name |-> <<"C", "I", "D">>, pk |-> 0] >>

\* foreign_key_list rows
ForeignKeys(name) ==
    IF name = Orders
    THEN << [from |-> <<"C", "I", "D">>, table |-> Customers, to |-> <<"I", "D">>] >>
    ELSE << >>

RECURSIVE ExistingTables(_, _)
ExistingTables(d, order) ==
    IF order = <<>> THEN <<>>
    ELSE (IF d[Head(order)].exists THEN <<Head(order)>> ELSE <<>>)
         \o ExistingTables(d, Tail(order))

\* n data rows of a result set
DataRows(n) == [i \in 1..n |-> "row"]

\* mutation of Limit: the LIMIT clause is lost
LimitIgnored(n, rows) == rows

\* SELECT ... LIMIT n on rows rows: a negative n is no limit in SQLite
Limit(n, rows) == IF n < 0 THEN rows ELSE Min(n, rows)

\* A connection: the committed file contents, this connection's view and
\* whether the sqlite3 module has implicitly opened a transaction.
Connect(d) == [committed |-> d, view |-> d, inTxn |-> FALSE]

SqlError(cn) == [err |-> "OperationalError", rows |-> <<>>, desc |-> FALSE, cn |-> cn]

\* a write: sqlite3 opens a transaction before INSERT/UPDATE/DELETE/REPLACE
\* only; any other statement runs in SQLite's autocommit mode when no
\* transaction is open and is durable as soon as it has executed.
Write(cn, newView, isDml) ==
    IF isDml \/ cn.inTxn
    THEN [cn EXCEPT !.view = newView, !.inTxn = TRUE]
    ELSE [cn EXCEPT !.view = newView, !.committed = newView]

\* cursor.execute(stmt); stmt = [kind, ident, limit]
SqlExecute(cn, stmt) ==
    LET Run(p) ==
            LET t == p.name
                there == Exists(cn.view, t)
            IN
            CASE stmt.kind = "tables" ->
                    [err |-> NoErr, rows |-> ExistingTables(cn.view, TableOrder),
                     desc |-> TRUE, cn |-> cn]
              [] stmt.kind = "bad" -> SqlError(cn)
              [] ~p.ok -> SqlError(cn)
              [] stmt.kind = "table_info" ->
                    [err |-> NoErr, rows |-> IF there THEN TableInfo(t) ELSE <<>>,
                     desc |-> TRUE, cn |-> cn]
              [] stmt.kind = "fk_list" ->
                    [err |-> NoErr, rows |-> IF there THEN ForeignKeys(t) ELSE <<>>,
                     desc |-> TRUE, cn |-> cn]
              [] stmt.kind = "count" ->
                    IF ~there THEN SqlError(cn)
                    ELSE [err |-> NoErr, rows |-> <<cn.view[t].rows>>, desc |-> TRUE, cn |-> cn]
              [] stmt.kind = "select" ->
                    IF ~there THEN SqlError(cn)
                    ELSE [err |-> NoErr,
                          rows |-> DataRows(Limit(stmt.limit, cn.view[t].rows)),
                          desc |-> TRUE, cn |-> cn]
              [] stmt.kind = "insert" ->
                    IF ~there THEN SqlError(cn)
                    ELSE [err |-> NoErr, rows |-> <<>>, desc |-> FALSE,
                          cn |-> Write(cn, [cn.view EXCEPT ![t].rows = @ + 1], TRUE)]
              [] stmt.kind = "delete" ->
                    IF ~there THEN SqlError(cn)
                    ELSE [err |-> NoErr, rows |-> <<>>, desc |-> FALSE,
                          cn |-> Write(cn, [cn.view EXCEPT ![t].rows = 0], TRUE)]
              [] stmt.kind = "drop" ->
                    IF ~there THEN SqlError(cn)
                    ELSE [err |-> NoErr, rows |-> <<>>, desc |-> FALSE,
                          cn |-> Write(cn, [cn.view EXCEPT ![t] = NoTable], FALSE)]
              [] stmt.kind = "create" ->
                    IF there \/ t \notin TableNames THEN SqlError(cn)
                    ELSE [err |-> NoErr, rows |-> <<>>, desc |-> FALSE,
                          cn |-> Write(cn, [cn.view EXCEPT ![t] = [exists |-> TRUE, rows |-> 0]],
                                       FALSE)]
              [] OTHER -> SqlError(cn)
    IN  Run(ParseIdent(stmt.ident))

\* conn.commit(), conn.rollback(), and what closing does to an open transaction
Commit(cn) == [cn EXCEPT !.committed = cn.view, !.inTxn = FALSE]
Rollback(cn) == [cn EXCEPT !.view = cn.committed, !.inTxn = FALSE]

\* Which database calls fail in one pass through the gate.
FaultPoints == {"connect", "cursor", "execute", "fetch", "commit", "rollback",
                "curclose", "connclose"}

FailuresOf(S) ==
    [connect |-> "connect" \in S, cursor |-> "cursor" \in S, execute |-> "execute" \in S,
     fetch |-> "fetch" \in S, commit |-> "commit" \in S, rollback |-> "rollback" \in S,
     curclose |-> "curclose" \in S, connclose |-> "connclose" \in S]

Failures == {FailuresOf(S) : S \in {T \in SUBSET FaultPoints : Cardinality(T) <= MaxFaults}}

(***************************************************************************)
(* The body of a tool's with-block: execute, fetch, read the description   *)
(***************************************************************************)
WithBody(cn, stmt, needDesc, f) ==
    IF f.execute THEN [err |-> "DatabaseError", rows |-> <<>>, cn |-> cn]
    ELSE LET Fetch(x) ==
                 IF x.err # NoErr THEN [err |-> x.err, rows |-> <<>>, cn |-> x.cn]
                 ELSE IF f.fetch THEN [err |-> "DatabaseError", rows |-> <<>>, cn |-> x.cn]
                 ELSE IF needDesc /\ ~x.desc
                      THEN [err |-> "TypeError", rows |-> x.rows, cn |-> x.cn]
                 ELSE [err |-> NoErr, rows |-> x.rows, cn |-> x.cn]
         IN  Fetch(SqlExecute(cn, stmt))

(***************************************************************************)
(* with_sql_cursor                                                         *)
(***************************************************************************)
GateIdle ==
    [readonly |-> TRUE, opened |-> FALSE, bodyRan |-> FALSE, bodyErr |-> NoErr,
     commit |-> FALSE, rollback |-> FALSE, rollbackOk |-> FALSE, curClosed |-> FALSE,
     connClosed |-> FALSE, raised |-> NoErr]

\* mutation of ShouldCommit: the readonly flag is not consulted
ShouldCommitAlways(readonly, bodyErr) == bodyErr = NoErr

\* after the yield: if not readonly: conn.commit()
ShouldCommit(readonly, bodyErr) == bodyErr = NoErr /\ ~readonly

\* except: if not readonly: conn.rollback()
ShouldRollback(readonly, tryErr) == tryErr # NoErr /\ ~readonly

with_sql_cursor(readonly, d, stmt, needDesc, f) ==
    IF f.connect
    THEN [g |-> [GateIdle EXCEPT !.readonly = readonly, !.raised = "ConnectError"],
          rows |-> <<>>, db |-> d]
    ELSE IF f.cursor
    THEN [g |-> [GateIdle EXCEPT !.readonly = readonly, !.opened = TRUE,
                                 !.raised = "CursorError"],
          rows |-> <<>>, db |-> d]
    ELSE
    LET Leave(b) ==
            LET \* try: yield cur; if not readonly: conn.commit()
                doCommit == ShouldCommit(readonly, b.err)
                tryErr == IF b.err # NoErr THEN b.err
                          ELSE IF doCommit /\ f.commit THEN "CommitError" ELSE NoErr
                cn1 == IF doCommit /\ ~f.commit THEN Commit(b.cn) ELSE b.cn
                \* except: if not readonly: conn.rollback(); raise
                doRollback == ShouldRollback(readonly, tryErr)
                cn2 == IF doRollback /\ ~f.rollback THEN Rollback(cn1) ELSE cn1
                exceptErr == IF doRollback /\ f.rollback THEN "RollbackError" ELSE tryErr
                \* finally: cur.close(); conn.close()
                curClosed == ~f.curclose
                connClosed == ~f.curclose /\ ~f.connclose
                finalErr == IF f.curclose THEN "CursorCloseError"
                            ELSE IF f.connclose THEN "ConnCloseError" ELSE exceptErr
            IN  [g |-> [readonly |-> readonly, opened |-> TRUE, bodyRan |-> TRUE,
                        bodyErr |-> b.err, commit |-> doCommit, rollback |-> doRollback,
                        rollbackOk |-> doRollback /\ ~f.rollback,
                        curClosed |-> curClosed, connClosed |-> connClosed,
                        raised |-> finalErr],
                 rows |-> IF finalErr = NoErr THEN b.rows ELSE <<>>,
                 db |-> cn2.committed]
    IN  Leave(WithBody(Connect(d), stmt, needDesc, f))

\* connections the pass leaves open
Leaked(g) == IF g.opened /\ ~g.connClosed THEN 1 ELSE 0

(***************************************************************************)
(* Text helpers                                                            *)
(***************************************************************************)
Digits == <<"0", "1", "2", "3", "4", "5", "6", "7", "8", "9">>

RECURSIVE ToStr(_)
\* str(n) for n >= 0
ToStr(n) == IF n < 10 THEN <<Digits[n + 1]>>
            ELSE ToStr(n \div 10) \o <<Digits[(n % 10) + 1]>>

RECURSIVE Join(_, _)
\* sep.join(items)
Join(sep, items) ==
    IF items = <<>> THEN <<>>
    ELSE IF Len(items) = 1 THEN Head(items)
    ELSE Head(items) \o <<sep>> \o Join(sep, Tail(items))

\* str.endswith
EndsWith(s, suf) ==
    Len(s) >= Len(suf) /\ SubSeq(s, Len(s) - Len(suf) + 1, Len(s)) = suf

(***************************************************************************)
(* The tools.  Each takes its arguments, the database and the failures of  *)
(* this invocation; each yields the error it raises (NoErr when it returns *)
(* normally), the text it returns, the gate record and the database.       *)
(***************************************************************************)
ToolReturn(text, r) == [raised |-> NoErr, content |-> text, g |-> r.g, db |-> r.db]
ToolRaise(r) == [raised |-> r.g.raised, content |-> <<>>, g |-> r.g, db |-> r.db]

Stmt(kind, name, limit) == [kind |-> kind, ident |-> QuoteIdent(name), limit |-> limit]

list_tables(args, d, f) ==
    LET Result(r) ==
            LET tables == r.rows
                table_list == Join("\n", [i \in 1..Len(tables) |-> <<"- ">> \o tables[i]])
                insight == <<"**Insight:** Database berisi ">> \o ToStr(Len(tables))
                           \o <<" tabel yang dapat diakses.">>
            IN  IF r.g.raised # NoErr
                THEN ToolReturn(<<"Error listing tables.">>, r)
                ELSE ToolReturn(<<"**Daftar Tabel:**\n">> \o table_list \o <<"\n\n">>
                                \o insight, r)
    IN  Result(with_sql_cursor(TRUE, d, [kind |-> "tables", ident |-> <<>>, limit |-> 0],
                               FALSE, f))

get_columns(args, d, f) ==
    LET Result(r) ==
            LET cols == [i \in 1..Len(r.rows) |-> r.rows[i].name]
            IN  IF r.g.raised # NoErr
                THEN ToolReturn(<<"Error getting columns.">>, r)
                ELSE ToolReturn(Join(", ", cols), r)
    IN  Result(with_sql_cursor(TRUE, d, Stmt("table_info", args.table_name, 0), FALSE, f))

count_rows(args, d, f) ==
    LET Result(r) ==
            IF r.g.raised # NoErr
            THEN ToolReturn(<<"Error counting rows.">>, r)
            ELSE ToolReturn(ToStr(r.rows[1]), r)
    IN  Result(with_sql_cursor(TRUE, d, Stmt("count", args.table_name, 0), FALSE, f))

describe_table(args, d, f) ==
    LET Result(r) ==
            LET lines == [i \in 1..Len(r.rows) |->
                             <<"(">> \o r.rows[i].name \o <<", ">>
                             \o ToStr(r.rows[i].pk) \o <<")">>]
            IN  IF r.g.raised # NoErr
                THEN ToolReturn(<<"Error describing table.">>, r)
                ELSE ToolReturn(Join("\n", lines), r)
    IN  Result(with_sql_cursor(TRUE, d, Stmt("table_info", args.table_name, 0), FALSE, f))

\* df.to_markdown(index=False): a header and one line per data row
Markdown(rows) == <<"| columns |">> \o rows

sample_table(args, d, f) ==
    LET Result(r) ==
            LET insight == <<"**Insight:** Menampilkan ">> \o ToStr(Len(r.rows))
                           \o <<" baris sampel dari tabel ">> \o args.table_name
                           \o <<". Data ini memberikan gambaran awal tentang isi tabel.">>
            IN  IF r.g.raised # NoErr
                THEN ToolReturn(<<"Error sampling table.">>, r)
                ELSE ToolReturn(Markdown(r.rows) \o <<"\n\n">> \o insight, r)
    IN  Result(with_sql_cursor(TRUE, d,
                               Stmt("select", args.table_name, args.row_sample_size),
                               TRUE, f))

\* no try/except: what the gate raises leaves the tool
get_primary_keys(args, d, f) ==
    LET Result(r) ==
            LET IsKey(col) == col.pk > 0 \/ EndsWith(col.name, <<"I", "D">>)
                keys == SelectSeq(r.rows, IsKey)
                pks == [i \in 1..Len(keys) |-> keys[i].name]
            IN  IF r.g.raised # NoErr
                THEN ToolRaise(r)
                ELSE ToolReturn(Join(", ", pks), r)
    IN  Result(with_sql_cursor(TRUE, d, Stmt("table_info", args.table_name, 0), FALSE, f))

\* no try/except: what the gate raises leaves the tool
get_foreign_keys(args, d, f) ==
    LET Result(r) ==
            LET lines == [i \in 1..Len(r.rows) |->
                             r.rows[i].from \o <<" -> ">> \o r.rows[i].table \o <<".">>
                             \o r.rows[i].to]
            IN  IF r.g.raised # NoErr
                THEN ToolRaise(r)
                ELSE ToolReturn(Join("\n", lines), r)
    IN  Result(with_sql_cursor(TRUE, d, Stmt("fk_list", args.table_name, 0), FALSE, f))

SqlErrorText == <<"An error occurred when executing the query. Please check your request.">>

execute_sql(args, d, f) ==
    LET Result(r) ==
            LET n == Len(r.rows)
                insight == <<"**Insight:** Query menghasilkan ">> \o ToStr(n)
                           \o <<" baris data. ">>
                           \o (IF n > 0
                               THEN <<"Data menunjukkan informasi relevan dari tabel ",
                                      "columns[0]", " dan kolom terkait.">>
                               ELSE <<"Tidak ada data yang ditemukan untuk permintaan ini.">>)
            IN  IF r.g.raised # NoErr
                THEN ToolReturn(SqlErrorText, r)
                ELSE ToolReturn(Markdown(r.rows) \o <<"\n\n">> \o insight, r)
    IN  Result(with_sql_cursor(TRUE, d, args.sql_query, TRUE, f))

\* get_available_tools(): the names of the registry
ToolNames == {"list_tables", "get_columns", "count_rows", "describe_table",
              "sample_table", "get_primary_keys", "get_foreign_keys", "execute_sql"}

\* tool.invoke(args) of the tool registered under name
Invoke(name, args, d, f) ==
    CASE name = "list_tables" -> list_tables(args, d, f)
      [] name = "get_columns" -> get_columns(args, d, f)
      [] name = "count_rows" -> count_rows(args, d, f)
      [] name = "describe_table" -> describe_table(args, d, f)
      [] name = "sample_table" -> sample_table(args, d, f)
      [] name = "get_primary_keys" -> get_primary_keys(args, d, f)
      [] name = "get_foreign_keys" -> get_foreign_keys(args, d, f)
      [] name = "execute_sql" -> execute_sql(args, d, f)

(***************************************************************************)
(* Python values and the ToolCall dict                                     *)
(***************************************************************************)
NoArgs == [table_name |-> <<>>, row_sample_size |-> 10,
           sql_query |-> [kind |-> "bad", ident |-> <<>>, limit |-> 0]]

PStr(s) == [t |-> "str", s |-> s, a |-> NoArgs]
PNone == [t |-> "none", s |-> "", a |-> NoArgs]
PArgs(a) == [t |-> "dict", s |-> "", a |-> a]

\* str(v)
Str(v) == CASE v.t = "str" -> v.s
            [] v.t = "none" -> "None"
            [] OTHER -> "{...}"

KeyName == <<"n", "a", "m", "e">>
KeyArgs == <<"a", "r", "g", "s">>
KeyId == <<"i", "d">>
KeyType == <<"t", "y", "p", "e">>
KeyIdx == <<"I", "d", "x">>

\* str.lower() on the characters that occur in keys
LowerChar(c) == CASE c = "I" -> "i" [] c = "D" -> "d" [] OTHER -> c
Lower(s) == [i \in 1..Len(s) |-> LowerChar(s[i])]

\* sub in s
Contains(s, sub) ==
    \E i \in 1..(Len(s) - Len(sub) + 1) : SubSeq(s, i, i + Len(sub) - 1) = sub

\* a dict is the sequence of its entries in insertion order
HasKey(dict, k) == \E i \in 1..Len(dict) : dict[i].k = k
\* dict[k]
Item(dict, k) == dict[CHOOSE i \in 1..Len(dict) : dict[i].k = k].v
\* dict.get(k, default)
Get(dict, k, default) == IF HasKey(dict, k) THEN Item(dict, k) ELSE default

\* next((k for k in tool_call.keys() if "id" in k.lower()), None); the
\* result is <<>> for None, which is no key of any dict
IdKey(dict) ==
    LET hits == {i \in 1..Len(dict) : Contains(Lower(dict[i].k), <<"i", "d">>)}
    IN  IF hits = {} THEN <<>>
        ELSE dict[CHOOSE i \in hits : \A j \in hits : i <= j].k

\* str(tool_call.get(id_key, ""))
CallId(dict) == Str(Get(dict, IdKey(dict), PStr("")))

(***************************************************************************)
(* Messages                                                                *)
(***************************************************************************)
SystemMessage(text) ==
    [type |-> "system", content |-> text, tool_calls |-> <<>>, tool_call_id |-> ""]
HumanMessage(text) ==
    [type |-> "human", content |-> text, tool_calls |-> <<>>, tool_call_id |-> ""]
AIMessage(text, calls) ==
    [type |-> "ai", content |-> text, tool_calls |-> calls, tool_call_id |-> ""]
ToolMessage(text, id) ==
    [type |-> "tool", content |-> text, tool_calls |-> <<>>, tool_call_id |-> id]

NoMessage == [type |-> "none", content |-> <<>>, tool_calls |-> <<>>, tool_call_id |-> ""]

\* with st.chat_message(role): st.markdown(text)
Shown(role, text) == [role |-> role, text |-> text, error |-> NoErr]

\* an exception that leaves the script: the page gets the exception itself
Uncaught(error) == [role |-> "exception", text |-> <<>>, error |-> error]

(***************************************************************************)
(* call_tool                                                               *)
(***************************************************************************)
call_tool(tool_call, d, f) ==
    IF \/ ~HasKey(tool_call, KeyName)
       \/ Item(tool_call, KeyName).s \notin ToolNames
       \/ ~HasKey(tool_call, KeyArgs)
    THEN [raised |-> "KeyError", msg |-> NoMessage, g |-> GateIdle, db |-> d,
          invoked |-> FALSE]
    ELSE LET Wrap(result) ==
                 IF result.raised # NoErr
                 THEN [raised |-> result.raised, msg |-> NoMessage, g |-> result.g,
                       db |-> result.db, invoked |-> TRUE]
                 ELSE [raised |-> NoErr,
                       msg |-> ToolMessage(result.content, CallId(tool_call)),
                       g |-> result.g, db |-> result.db, invoked |-> TRUE]
         IN  Wrap(Invoke(Item(tool_call, KeyName).s, Item(tool_call, KeyArgs).a, d, f))

(***************************************************************************)
(* Inputs: the tool calls a model response may carry                       *)
(***************************************************************************)
Args(table, n, stmt) == [table_name |-> table, row_sample_size |-> n, sql_query |-> stmt]

StdCall(name, args, id) ==
    << [k |-> KeyName, v |-> PStr(name)], [k |-> KeyArgs, v |-> PArgs(args)],
       [k |-> KeyId, v |-> id], [k |-> KeyType, v |-> PStr("tool_call")] >>

\* a call without an id entry
NoIdCall(name, args) ==
    << [k |-> KeyName, v |-> PStr(name)], [k |-> KeyArgs, v |-> PArgs(args)],
       [k |-> KeyType, v |-> PStr("tool_call")] >>

\* a call that carries an "Idx" entry ahead of its id
IdxCall(name, args, id) ==
    << [k |-> KeyName, v |-> PStr(name)], [k |-> KeyArgs, v |-> PArgs(args)],
       [k |-> KeyIdx, v |-> PStr("0")], [k |-> KeyId, v |-> id],
       [k |-> KeyType, v |-> PStr("tool_call")] >>

Unknown == <<"N">>
Quoted == <<"a", Dq>>
TableArgs == TableNames \cup {Unknown, Quoted}
TableTools == {"get_columns", "count_rows", "describe_table", "sample_table",
               "get_primary_keys", "get_foreign_keys"}
SampleSizes == {-1, 0, 1, MaxRows + 1}
BadStmt == [kind |-> "bad", ident |-> <<>>, limit |-> 0]
SqlStmts ==
    {Stmt(k, Customers, -1) : k \in {"select", "insert", "delete", "drop"}}
    \cup {Stmt("create", Orders, -1), Stmt("select", Unknown, -1), BadStmt}

ToolCalls ==
    {StdCall(t, Args(n, 10, BadStmt), PStr("x")) : t \in TableTools \ {"sample_table"},
                                                   n \in TableArgs}
    \cup {StdCall("sample_table", Args(n, k, BadStmt), PStr("x")) :
              n \in {Customers, Unknown}, k \in SampleSizes}
    \cup {StdCall("execute_sql", Args(<<>>, 10, q), PStr("x")) : q \in SqlStmts}
    \cup {StdCall("list_tables", NoArgs, id) : id \in {PStr("x"), PStr("y"), PNone}}
    \cup {NoIdCall("list_tables", NoArgs), IdxCall("list_tables", NoArgs, PStr("x")),
          StdCall("drop_database", NoArgs, PStr("x"))}

\* the calls the model issues in the agent loop
LoopCalls ==
    {StdCall("list_tables", NoArgs, PStr("x")),
     StdCall("get_primary_keys", Args(Customers, 10, BadStmt), PStr("y")),
     StdCall("execute_sql", Args(<<>>, 10, Stmt("drop", Customers, -1)), PStr("x")),
     StdCall("drop_database", NoArgs, PStr("y"))}

RECURSIVE SeqsUpTo(_, _)
\* the non-empty sequences over S of length at most n
SeqsUpTo(S, n) ==
    IF n = 0 THEN {}
    ELSE {<<x>> : x \in S}
         \cup {Append(q, x) : q \in SeqsUpTo(S, n - 1), x \in S}

Answer == <<"answer">>
Responses == {AIMessage(Answer, <<>>)}
             \cup {AIMessage(<<>>, calls) : calls \in SeqsUpTo(LoopCalls, MaxCalls)}

Prompts == {<<"q1">>, <<"q2">>}

(***************************************************************************)
(* Initial state                                                           *)
(***************************************************************************)
SYSTEM_PROMPT == <<"You are a master database engineer">>

create_history == <<SystemMessage(SYSTEM_PROMPT)>>

NoOutcome == [kind |-> "none", value |-> <<>>, error |-> NoErr]

ToolIdle ==
    [call |-> <<>>, raised |-> NoErr, msg |-> NoMessage,
     dbBefore |-> [t \in TableNames |-> NoTable], invoked |-> FALSE]

TableStates == {NoTable} \cup {[exists |-> TRUE, rows |-> n] : n \in 0..MaxRows}

InitAsk ==
    /\ history = create_history
    /\ pc = "idle"
    /\ prompt = <<>>
    /\ messages = <<>>
    /\ messagesObj = "none"
    /\ n_iterations = 0
    /\ max_iterations = 0
    /\ pending = <<>>
    /\ outcome = NoOutcome
    /\ nInvoked = 0
    /\ histAtCall = create_history
    /\ nQueries = 0
    /\ page = <<>>

NotParsed == [ok |-> FALSE, name |-> <<>>]

\* no identifier is being built
InitIdent ==
    /\ table_name = <<>>
    /\ safe = <<>>
    /\ parsed = NotParsed

\* a session starts on a database holding Customers
Init ==
    /\ InitAsk
    /\ InitIdent
    /\ db = [t \in TableNames |-> IF t = Customers THEN [exists |-> TRUE, rows |-> 1]
                                  ELSE NoTable]
    /\ openConns = 0
    /\ gate = GateIdle
    /\ tool = ToolIdle

\* the tools and the gate are exercised on every database within the bounds
InitAny ==
    /\ InitAsk
    /\ InitIdent
    /\ db \in {d \in [TableNames -> TableStates] : d[Orders].rows = 0}
    /\ openConns = 0
    /\ gate = GateIdle
    /\ tool = ToolIdle

(***************************************************************************)
(* The agent loop: ask() and the chat handler that calls it                *)
(***************************************************************************)
\* mutation of ListCopy: messages = history
ListAlias(obj) == obj

\* history.copy(): a new list object holding the same messages
ListCopy(obj) == "working"

\* mutation of LoopCondition: one turn too many
LoopConditionInclusive == n_iterations <= max_iterations

\* while n_iterations < max_iterations
LoopCondition == n_iterations < max_iterations

\* mutation of NextCall: the calls are taken from the end of the list
NextCallLast(calls) == calls[Len(calls)]

\* for tool_call in response.tool_calls: the call the loop takes up
NextCall(calls) == Head(calls)

\* mutation of IsFinal: the test for tool calls is lost
IsFinalNever(response) == FALSE

\* if not response.tool_calls
IsFinal(response) == response.tool_calls = <<>>

\* mutation of RestOfCalls: only the first tool call is dispatched
RestOfCallsNone(calls) == <<>>

\* the for loop moves on to the next tool call
RestOfCalls(calls) == Tail(calls)

\* f"Konteks Dokumen:\n{context}\n\nPertanyaan Pengguna: {query}"
Contextualize(context, query) ==
    <<"Konteks Dokumen:\n">> \o context \o <<"\n\nPertanyaan Pengguna: ">> \o query

\* what the retriever finds for a query
Context(query) == <<"doc">>

\* list.append on the working list; the caller's list is the same object
\* when messages names it
AppendMessage(m) ==
    /\ messages' = Append(messages, m)
    /\ history' = IF messagesObj = "caller" THEN Append(messages, m) ELSE history

Running == pc # "idle"

\* app.py: the user submits a prompt and the handler calls ask(), which
\* retrieves the context and builds the working list
Submit ==
    /\ pc = "idle"
    /\ nQueries < MaxQueries
    /\ \E p \in Prompts, m \in 0..MaxMaxIter :
        /\ prompt' = p
        /\ max_iterations' = m
        /\ messagesObj' = ListCopy("caller")
        /\ messages' = Append(history, HumanMessage(Contextualize(Context(p), p)))
        /\ history' = IF messagesObj' = "caller" THEN messages' ELSE history
    /\ histAtCall' = history
    /\ n_iterations' = 0
    /\ nInvoked' = 0
    /\ pending' = <<>>
    /\ outcome' = NoOutcome
    /\ nQueries' = nQueries + 1
    /\ page' = <<Shown("user", prompt')>>
    /\ pc' = "while"
    /\ UNCHANGED <<db, openConns, gate, tool, identVars>>

\* the retriever raises before the loop is entered
SubmitRetrieverError ==
    /\ pc = "idle"
    /\ nQueries < MaxQueries
    /\ \E p \in Prompts : prompt' = p
    /\ histAtCall' = history
    /\ nQueries' = nQueries + 1
    /\ nInvoked' = 0
    /\ outcome' = [kind |-> "error", value |-> <<>>, error |-> "RetrieverError"]
    /\ page' = <<Shown("user", prompt')>>
    /\ pc' = "raised"
    /\ UNCHANGED <<history, messages, messagesObj, n_iterations, max_iterations, pending,
                   db, openConns, gate, tool, identVars>>

\* while n_iterations < max_iterations: response = llm.invoke(messages)
InvokeModel ==
    /\ pc = "while"
    /\ LoopCondition
    /\ \E response \in Responses :
        /\ AppendMessage(response)
        /\ IF IsFinal(response)
           THEN /\ pc' = "returned"
                /\ outcome' = [kind |-> "return", value |-> response.content,
                               error |-> NoErr]
                /\ pending' = <<>>
           ELSE /\ pc' = "for"
                /\ outcome' = outcome
                /\ pending' = response.tool_calls
    /\ nInvoked' = nInvoked + 1
    /\ UNCHANGED <<prompt, messagesObj, n_iterations, max_iterations, histAtCall,
                   nQueries, db, openConns, gate, tool, page, identVars>>

\* llm.invoke raises
InvokeModelError ==
    /\ pc = "while"
    /\ LoopCondition
    /\ nInvoked' = nInvoked + 1
    /\ outcome' = [kind |-> "error", value |-> <<>>, error |-> "ProviderError"]
    /\ pc' = "raised"
    /\ UNCHANGED <<history, prompt, messages, messagesObj, n_iterations, max_iterations,
                   pending, histAtCall, nQueries, db, openConns, gate, tool, page, identVars>>

\* the loop condition is false: raise RuntimeError("Maximum number of ...")
Exhausted ==
    /\ pc = "while"
    /\ ~LoopCondition
    /\ outcome' = [kind |-> "error", value |-> <<>>, error |-> "MaxIterations"]
    /\ pc' = "raised"
    /\ UNCHANGED <<history, prompt, messages, messagesObj, n_iterations, max_iterations,
                   pending, nInvoked, histAtCall, nQueries, db, openConns, gate, tool, page,
                   identVars>>

\* for tool_call in response.tool_calls: messages.append(call_tool(tool_call))
DispatchTool ==
    /\ pc = "for"
    /\ pending # <<>>
    /\ \E f \in Failures :
        LET Effect(r) ==
            /\ openConns + Leaked(r.g) <= MaxLeaks
            /\ db' = r.db
            /\ gate' = r.g
            /\ openConns' = openConns + Leaked(r.g)
            /\ tool' = [call |-> NextCall(pending), raised |-> r.raised, msg |-> r.msg,
                        dbBefore |-> db, invoked |-> r.invoked]
            /\ IF r.raised # NoErr
               THEN /\ pc' = "raised"
                    /\ outcome' = [kind |-> "error", value |-> <<>>, error |-> r.raised]
                    /\ UNCHANGED <<history, messages, pending>>
               ELSE /\ AppendMessage(r.msg)
                    /\ pending' = RestOfCalls(pending)
                    /\ UNCHANGED <<pc, outcome>>
        IN  Effect(call_tool(NextCall(pending), db, f))
    /\ UNCHANGED <<prompt, messagesObj, n_iterations, max_iterations, nInvoked,
                   histAtCall, nQueries, page, identVars>>

\* the for loop is over: n_iterations += 1
NextIteration ==
    /\ pc = "for"
    /\ pending = <<>>
    /\ n_iterations' = n_iterations + 1
    /\ pc' = "while"
    /\ UNCHANGED <<history, prompt, messages, messagesObj, max_iterations, pending,
                   outcome, nInvoked, histAtCall, nQueries, db, openConns, gate, tool, page,
                   identVars>>

\* ask() has left: its locals are gone
LeaveAsk ==
    /\ messages' = <<>>
    /\ messagesObj' = "none"
    /\ pending' = <<>>
    /\ n_iterations' = 0
    /\ max_iterations' = 0
    /\ nInvoked' = 0
    /\ gate' = GateIdle
    /\ tool' = ToolIdle

\* mutation of StoreExchange: the history is seeded again with every exchange
StoreExchangeReseed ==
    /\ pc = "returned"
    /\ page' = Append(page, Shown("assistant", outcome.value))
    /\ history' = history \o create_history
                          \o <<HumanMessage(prompt), AIMessage(outcome.value, <<>>)>>
    /\ pc' = "idle"
    /\ LeaveAsk
    /\ UNCHANGED <<prompt, outcome, histAtCall, nQueries, db, openConns, identVars>>

\* mutation of StoreExchange: the working list of ask() is stored
StoreExchangeWorking ==
    /\ pc = "returned"
    /\ page' = Append(page, Shown("assistant", outcome.value))
    /\ history' = messages
    /\ pc' = "idle"
    /\ LeaveAsk
    /\ UNCHANGED <<prompt, outcome, histAtCall, nQueries, db, openConns, identVars>>

\* app.py: ask() returned; the handler shows the response and appends the
\* exchange
StoreExchange ==
    /\ pc = "returned"
    /\ page' = Append(page, Shown("assistant", outcome.value))
    /\ history' = history \o <<HumanMessage(prompt), AIMessage(outcome.value, <<>>)>>
    /\ pc' = "idle"
    /\ LeaveAsk
    /\ UNCHANGED <<prompt, outcome, histAtCall, nQueries, db, openConns, identVars>>

\* mutation of AbortExchange: the prompt is stored although ask() raised
AbortExchangePartial ==
    /\ pc = "raised"
    /\ page' = Append(page, Uncaught(outcome.error))
    /\ history' = Append(history, HumanMessage(prompt))
    /\ pc' = "idle"
    /\ LeaveAsk
    /\ UNCHANGED <<prompt, outcome, histAtCall, nQueries, db, openConns, identVars>>

\* app.py: ask() raised; nothing in the handler catches the error, which
\* leaves it before the appends and reaches the page as it is
AbortExchange ==
    /\ pc = "raised"
    /\ page' = Append(page, Uncaught(outcome.error))
    /\ pc' = "idle"
    /\ LeaveAsk
    /\ UNCHANGED <<history, prompt, outcome, histAtCall, nQueries, db, openConns,
                   identVars>>

Next ==
    \/ Submit
    \/ SubmitRetrieverError
    \/ InvokeModel
    \/ InvokeModelError
    \/ Exhausted
    \/ DispatchTool
    \/ NextIteration
    \/ StoreExchange
    \/ AbortExchange

Spec == Init /\ [][Next]_vars

(***************************************************************************)
(* The tool registry on its own: any sequence of tool invocations          *)
(***************************************************************************)
ToolStep ==
    /\ \E call \in ToolCalls, f \in Failures :
        LET Effect(r) ==
            /\ openConns + Leaked(r.g) <= MaxLeaks
            /\ db' = r.db
            /\ gate' = r.g
            /\ openConns' = openConns + Leaked(r.g)
            /\ tool' = [call |-> call, raised |-> r.raised, msg |-> r.msg,
                        dbBefore |-> db, invoked |-> r.invoked]
        IN  Effect(call_tool(call, db, f))
    /\ UNCHANGED askVars
    /\ UNCHANGED identVars

ToolNext == ToolStep

ToolSpec == InitAny /\ [][ToolNext]_vars

(***************************************************************************)
(* sample_table on its own, for every table name and sample size           *)
(***************************************************************************)
SampleCalls ==
    {StdCall("sample_table", Args(n, k, BadStmt), PStr("x")) : n \in TableArgs,
                                                                k \in SampleSizes}

SampleStep ==
    /\ \E call \in SampleCalls, f \in Failures :
        LET Effect(r) ==
            /\ openConns + Leaked(r.g) <= MaxLeaks
            /\ db' = r.db
            /\ gate' = r.g
            /\ openConns' = openConns + Leaked(r.g)
            /\ tool' = [call |-> call, raised |-> r.raised, msg |-> r.msg,
                        dbBefore |-> db, invoked |-> r.invoked]
        IN  Effect(call_tool(call, db, f))
    /\ UNCHANGED askVars
    /\ UNCHANGED identVars

SampleNext == SampleStep

SampleSpec == InitAny /\ [][SampleNext]_vars

(***************************************************************************)
(* The access gate on its own, for both values of readonly                 *)
(***************************************************************************)
\* the with-blocks the gate is entered with: a statement and whether the
\* block reads cursor.description
GateBodies ==
    {<<Stmt(k, n, -1), nd>> : k \in {"select", "insert", "drop"}, n \in {Customers, Unknown},
                              nd \in BOOLEAN}
    \cup {<<Stmt("create", Orders, -1), FALSE>>, <<Stmt("delete", Orders, -1), FALSE>>,
          <<BadStmt, FALSE>>}

GateStep ==
    /\ \E readonly \in BOOLEAN, body \in GateBodies, f \in Failures :
        LET Effect(r) ==
            /\ openConns + Leaked(r.g) <= MaxLeaks
            /\ \A t \in TableNames : r.db[t].rows <= MaxRows
            /\ db' = r.db
            /\ gate' = r.g
            /\ openConns' = openConns + Leaked(r.g)
        IN  Effect(with_sql_cursor(readonly, db, body[1], body[2], f))
    /\ UNCHANGED <<tool>>
    /\ UNCHANGED askVars
    /\ UNCHANGED identVars

GateNext == GateStep

GateSpec == InitAny /\ [][GateNext]_vars

(***************************************************************************)
(* The identifier a tool interpolates, for every table name up to          *)
(* MaxNameLen characters                                                   *)
(***************************************************************************)
NameChars == {"a", Dq, ";"}

Names == UNION {[1..n -> NameChars] : n \in 0..MaxNameLen}

InitNames ==
    /\ InitAsk
    /\ db = [t \in TableNames |-> NoTable]
    /\ openConns = 0
    /\ gate = GateIdle
    /\ tool = ToolIdle
    /\ table_name \in Names
    /\ safe = <<>>
    /\ parsed = NotParsed

\* safe = table_name.replace('"', '""')
EscapeName ==
    /\ pc = "idle"
    /\ safe' = Replace(table_name)
    /\ pc' = "escaped"
    /\ UNCHANGED <<history, prompt, messages, messagesObj, n_iterations, max_iterations,
                   pending, outcome, nInvoked, histAtCall, nQueries, db, openConns, gate,
                   tool, page, table_name, parsed>>

\* cursor.execute(f'... "{safe}" ...'): the engine reads the identifier
ReadIdent ==
    /\ pc = "escaped"
    /\ parsed' = ParseIdent(<<Dq>> \o safe \o <<Dq>>)
    /\ pc' = "parsed"
    /\ UNCHANGED <<history, prompt, messages, messagesObj, n_iterations, max_iterations,
                   pending, outcome, nInvoked, histAtCall, nQueries, db, openConns, gate,
                   tool, page, table_name, safe>>

NamesNext ==
    \/ EscapeName
    \/ ReadIdent

NamesSpec == InitNames /\ [][NamesNext]_vars

(***************************************************************************)
(* Properties                                                              *)
(***************************************************************************)
Terminal == pc \in {"returned", "raised"}

\* the messages ask() has appended to its working list
OwnMessages == {i \in 1..Len(messages) : i > Len(histAtCall) + 1}

\* every model response of the running ask() carries a tool call
AllResponsesCallTools ==
    \A i \in OwnMessages : messages[i].type = "ai" => messages[i].tool_calls # <<>>

\* a measure of what the running query has left to do
Rank ==
    CASE pc = "idle" -> 0
      [] Terminal -> 1
      [] pc = "while" -> (max_iterations - n_iterations) * (MaxCalls + 3) + MaxCalls + 2
      [] pc = "for" -> (max_iterations - n_iterations) * (MaxCalls + 3) + Len(pending) + 1

C1_Budget ==
    /\ nInvoked <= max_iterations
    /\ n_iterations <= max_iterations
    /\ (pc = "raised" /\ outcome.error = "MaxIterations")
          => (nInvoked = max_iterations /\ AllResponsesCallTools)
    /\ (Terminal /\ AllResponsesCallTools /\ outcome.error \in {NoErr, "MaxIterations"})
          => (pc = "raised" /\ outcome.error = "MaxIterations"
              /\ nInvoked = max_iterations)

\* C1: ask() makes at most max_iterations model invocations and every step of
\* a running query brings it closer to its end; when every response carries
\* a tool call and every call returns, it raises the maximum-iterations error
\* after exactly max_iterations invocations.
C1_BoundedLoop == [](C1_Budget) /\ [][Running => Rank' < Rank]_vars

C1_Witness ==
    /\ pc = "raised"
    /\ outcome.error = "MaxIterations"
    /\ max_iterations = MaxMaxIter
    /\ nInvoked = MaxMaxIter

\* C2: whenever the model is about to be invoked again, and for every
\* response followed by a later one, the messages right after a response
\* with k tool calls are exactly k ToolResult messages, the j-th answering
\* the j-th call.
C2_OneResultPerCall ==
    \A i \in 1..Len(messages) :
        (/\ messages[i].type = "ai"
         /\ messages[i].tool_calls # <<>>
         /\ (pc = "while" \/ \E j \in (i + 1)..Len(messages) : messages[j].type = "ai"))
        => LET k == Len(messages[i].tool_calls) IN
           /\ Len(messages) >= i + k
           /\ \A j \in 1..k :
                /\ messages[i + j].type = "tool"
                /\ messages[i + j].tool_call_id = CallId(messages[i].tool_calls[j])
           /\ (Len(messages) > i + k => messages[i + k + 1].type # "tool")

C2_Witness ==
    /\ pc = "while"
    /\ LoopCondition
    /\ \E i \in 1..Len(messages) : Len(messages[i].tool_calls) = MaxCalls

\* C3: when a query is over, the stored history is the history before the
\* query followed by the prompt and the answer if ask() returned, and the
\* history before the query if ask() raised; while ask() has ended and the
\* handler has not yet stored anything, nothing has been stored.
C3_ExchangeCommitted ==
    /\ Terminal => history = histAtCall
    /\ (pc = "idle" /\ nQueries > 0) =>
          IF outcome.kind = "return"
          THEN history = histAtCall \o <<HumanMessage(prompt),
                                         AIMessage(outcome.value, <<>>)>>
          ELSE history = histAtCall

C3_Witness ==
    /\ pc = "idle"
    /\ nQueries = 2
    /\ outcome.kind = "error"
    /\ Len(history) = 3

\* C4: from the call of ask() until it returns or raises, the caller's
\* history is what it was at the call.
C4_HistoryNotMutated == pc \in {"while", "for", "returned", "raised"} => history = histAtCall

C4_Witness ==
    /\ pc = "for"
    /\ pending = <<>>
    /\ Len(messages) > Len(history) + 2

DatabaseErrors == {"ConnectError", "CursorError", "DatabaseError", "OperationalError",
                   "CursorCloseError", "ConnCloseError", "CommitError", "RollbackError"}

\* C5: a tool that was invoked returns normally whatever fails in the
\* database, and ask() never ends with a database error.
C5_ToolsAbsorbDatabaseErrors ==
    /\ tool.invoked => tool.raised = NoErr
    /\ pc = "raised" => outcome.error \notin DatabaseErrors

(***************************************************************************)
(* Properties of the tools                                                 *)
(***************************************************************************)
ErrorStrings == {<<"Error listing tables.">>, <<"Error getting columns.">>,
                 <<"Error counting rows.">>, <<"Error describing table.">>,
                 <<"Error sampling table.">>, SqlErrorText}

CalledTool == Item(tool.call, KeyName).s
CalledArgs == Item(tool.call, KeyArgs).a

\* a database call of the last invocation failed for a reason of its own
EnvironmentFailed ==
    \/ gate.raised \in {"ConnectError", "CursorError", "CursorCloseError", "ConnCloseError"}
    \/ gate.bodyErr = "DatabaseError"

UnknownTableCall ==
    /\ tool.invoked
    /\ CalledTool \in TableTools
    /\ ~Exists(tool.dbBefore, CalledArgs.table_name)

\* C6: a table tool called with the name of a table that does not exist
\* returns an error string and does not raise.
C6_UnknownTableIsError ==
    (UnknownTableCall /\ ~EnvironmentFailed)
        => (tool.raised = NoErr /\ tool.msg.content \in ErrorStrings)

(***************************************************************************)
(* Properties of the gate                                                  *)
(***************************************************************************)
CleanupFailed ==
    \/ gate.rollback /\ ~gate.rollbackOk
    \/ ~gate.curClosed
    \/ ~gate.connClosed

C7_Discipline ==
    /\ gate.commit <=> (gate.bodyErr = NoErr /\ ~gate.readonly)
    /\ gate.bodyErr # NoErr => (gate.rollback <=> ~gate.readonly)
    /\ gate.readonly => (~gate.commit /\ ~gate.rollback)

\* C7 as stated: the gate commits exactly when the body succeeded and
\* readonly is false, rolls back a failed body exactly when readonly is
\* false and then raises the body's error, and with readonly true neither
\* commits nor rolls back.
C7_Original ==
    gate.bodyRan => (C7_Discipline /\ (gate.bodyErr # NoErr => gate.raised = gate.bodyErr))

\* C7 amended: as above, but the body's error is the one raised only when
\* the rollback and the closing of cursor and connection succeed; when one
\* of them fails an error is still raised.
C7_Amended ==
    gate.bodyRan =>
        /\ C7_Discipline
        /\ gate.bodyErr # NoErr => gate.raised # NoErr
        /\ (gate.bodyErr # NoErr /\ ~CleanupFailed) => gate.raised = gate.bodyErr

C7_Witness ==
    /\ gate.bodyRan
    /\ ~gate.readonly
    /\ gate.bodyErr # NoErr
    /\ gate.rollback
    /\ gate.raised = gate.bodyErr

\* C8: after a pass through the gate the connection it opened is closed, and
\* so is the cursor it created; no connection stays open.
C8_NoConnectionLeak ==
    /\ gate.opened => gate.connClosed
    /\ gate.bodyRan => gate.curClosed
    /\ openConns = 0

\* C9: a tool invocation leaves the committed database as it was.
C9_ToolsDoNotPersist == tool.invoked => db = tool.dbBefore

\* the id a result should carry: the call's id, and no id for a call
\* whose id is missing or null
CorrelationId(call) ==
    IF HasKey(call, KeyId) /\ Item(call, KeyId).t = "str" THEN Item(call, KeyId).s ELSE ""

\* C10: the ToolResult of a dispatched call carries the call's id.
C10_CorrelationPreserved ==
    (tool.invoked /\ tool.raised = NoErr)
        => tool.msg.tool_call_id = CorrelationId(tool.call)

(***************************************************************************)
(* Properties of dispatch and of the chat handler                          *)
(***************************************************************************)
UnknownToolCall ==
    /\ HasKey(tool.call, KeyName)
    /\ Item(tool.call, KeyName).s \notin ToolNames

\* C11: a call that names a tool outside the registry invokes no tool,
\* produces no ToolResult and ends ask() with an unknown-tool error.
C11_UnknownToolFailsFast ==
    UnknownToolCall =>
        /\ ~tool.invoked
        /\ tool.msg = NoMessage
        /\ tool.raised = "UnknownToolError"
        /\ pc = "raised"
        /\ outcome.error = "UnknownToolError"

\* C12: after a query that failed, the page shows an error message written
\* by the handler and does not show the exception.
C12_GenericErrorReported ==
    (pc = "idle" /\ outcome.kind = "error") =>
        /\ \A i \in 1..Len(page) : page[i].error = NoErr
        /\ \E i \in 1..Len(page) : page[i].role \notin {"user", "exception"}

NumSystem(h) == Cardinality({i \in 1..Len(h) : h[i].type = "system"})

IsPrefix(a, b) == Len(a) <= Len(b) /\ SubSeq(b, 1, Len(a)) = a

C13_OneSystem ==
    /\ history # <<>>
    /\ history[1] = SystemMessage(SYSTEM_PROMPT)
    /\ NumSystem(history) = 1

\* C13: the stored history always holds exactly one System message, at
\* index 0, and every step leaves the history as it was or appends to it.
C13_OneSystemMessage == [](C13_OneSystem) /\ [][IsPrefix(history, history')]_vars

C13_Witness ==
    /\ pc = "idle"
    /\ nQueries = MaxQueries
    /\ Len(history) = 3
    /\ outcome.kind = "return"

\* index of the response whose tool calls are being dispatched
LastAI ==
    CHOOSE i \in 1..Len(messages) :
        /\ messages[i].type = "ai"
        /\ \A j \in (i + 1)..Len(messages) : messages[j].type # "ai"

C14_Order ==
    pc = "for" =>
        LET calls == messages[LastAI].tool_calls
            done == Len(messages) - LastAI
        IN  /\ done + Len(pending) = Len(calls)
            /\ pending = SubSeq(calls, done + 1, Len(calls))
            /\ \A j \in 1..done :
                 /\ messages[LastAI + j].type = "tool"
                 /\ messages[LastAI + j].tool_call_id = CallId(calls[j])

C14_OneAtATime ==
    (pc = "for" /\ pending # <<>> /\ (pc' = "raised" \/ pending' # pending)) =>
        /\ tool'.call = Head(pending)
        /\ pc' = "for" =>
             /\ pending' = Tail(pending)
             /\ Len(messages') = Len(messages) + 1
             /\ SubSeq(messages', 1, Len(messages)) = messages
             /\ messages'[Len(messages')].type = "tool"
             /\ messages'[Len(messages')].tool_call_id = CallId(Head(pending))
        /\ pc' = "raised" => messages' = messages

\* C14: while the calls of a response are dispatched, the messages after
\* the response are the results of the calls dispatched so far, in the
\* order of the calls, and the calls still to dispatch are the rest in
\* order; each dispatch takes the first of them and appends one result.
C14_OrderedDispatch == [](C14_Order) /\ [][C14_OneAtATime]_vars

C14_Witness ==
    /\ pc = "for"
    /\ Len(pending) = 1
    /\ Len(messages[LastAI].tool_calls) = 2
    /\ Len(messages) = LastAI + 1
    /\ CallId(messages[LastAI].tool_calls[1]) # CallId(messages[LastAI].tool_calls[2])

C15_Returned ==
    pc = "returned" =>
        LET n == Len(messages)
        IN  /\ messages[n].type = "ai"
            /\ messages[n].tool_calls = <<>>
            /\ outcome.kind = "return"
            /\ outcome.value = messages[n].content
            /\ nInvoked >= 1
            /\ nInvoked <= max_iterations
            /\ \A i \in OwnMessages :
                 (messages[i].type = "ai" /\ messages[i].tool_calls = <<>>) => i = n

C15_Terminal ==
    /\ (pc = "while" /\ Len(messages') > Len(messages)
           /\ messages'[Len(messages')].tool_calls = <<>>)
          => (pc' = "returned" /\ outcome'.value = messages'[Len(messages')].content)
    /\ pc = "returned"
          => (pc' = "idle" /\ nInvoked' <= nInvoked /\ db' = db /\ openConns' = openConns
              /\ outcome' = outcome)

\* C15: ask() returns the content of the first response without tool
\* calls, which is one of the first max_iterations responses; once it has
\* returned, no model invocation and no tool dispatch follows.
C15_FirstFinalResponse == [](C15_Returned) /\ [][C15_Terminal]_vars

C15_Witness ==
    /\ pc = "returned"
    /\ max_iterations = MaxMaxIter
    /\ nInvoked = MaxMaxIter
    /\ outcome.value = Answer

\* C16: at most one connection is open at any time, and none when the
\* model is invoked or when ask() has returned or raised.
C16_ConnectionPerCall ==
    /\ openConns <= 1
    /\ pc \in {"while", "returned", "raised"} => openConns = 0

(***************************************************************************)
(* Properties of sample_table, of the identifier and of execute_sql        *)
(***************************************************************************)
SampleCall ==
    /\ tool.invoked
    /\ CalledTool = "sample_table"
    /\ Exists(tool.dbBefore, CalledArgs.table_name)
    /\ ~EnvironmentFailed

\* data rows of the table the tool returned
RowsReturned ==
    Cardinality({i \in 1..Len(tool.msg.content) : tool.msg.content[i] = "row"})

RowsBefore == tool.dbBefore[CalledArgs.table_name].rows

\* C17 as stated: sample_table with row_sample_size N on a table of R rows
\* returns min(N, R) data rows and never more than N, for every integer N.
C17_Original ==
    SampleCall =>
        /\ tool.raised = NoErr
        /\ RowsReturned = Min(CalledArgs.row_sample_size, RowsBefore)
        /\ RowsReturned <= CalledArgs.row_sample_size

\* C17 amended: for N >= 0 it returns min(N, R) data rows, never more than
\* N; for N < 0 it returns all R rows.
C17_Amended ==
    SampleCall =>
        /\ tool.raised = NoErr
        /\ CalledArgs.row_sample_size >= 0 =>
             /\ RowsReturned = Min(CalledArgs.row_sample_size, RowsBefore)
             /\ RowsReturned <= CalledArgs.row_sample_size
        /\ CalledArgs.row_sample_size < 0 => RowsReturned = RowsBefore

C17_Witness ==
    /\ SampleCall
    /\ CalledArgs.row_sample_size = 1
    /\ RowsBefore = MaxRows
    /\ RowsReturned = 1

\* C18: the interpolated identifier of every table name reads as one quoted
\* identifier that takes up the whole text and denotes the name.
C18_IdentifierRoundTrip ==
    pc = "parsed" => parsed = [ok |-> TRUE, name |-> table_name]

C18_Witness ==
    /\ pc = "parsed"
    /\ parsed.ok
    /\ table_name = <<Dq, ";", "a", Dq>>

\* [System] followed by (Human, AI) pairs, the Human holding a raw prompt
\* and the AI no tool calls
StoredShape(h) ==
    /\ Len(h) % 2 = 1
    /\ h[1].type = "system"
    /\ \A i \in 2..Len(h) :
         IF i % 2 = 0
         THEN h[i].type = "human" /\ h[i].content \in Prompts
         ELSE h[i].type = "ai" /\ h[i].tool_calls = <<>>

\* index of the prompt of the running query in the working list
LastHuman ==
    CHOOSE i \in 1..Len(messages) :
        /\ messages[i].type = "human"
        /\ \A j \in (i + 1)..Len(messages) : messages[j].type # "human"

\* C19: the stored history is [System] followed by (Human, AI) pairs with
\* raw prompts and no tool calls or results, and so is everything the
\* working list of a query holds ahead of that query's own prompt.
C19_StoredHistoryShape ==
    /\ StoredShape(history)
    /\ pc \in {"while", "for", "returned"} =>
          StoredShape(SubSeq(messages, 1, LastHuman - 1))

C19_Witness ==
    /\ pc = "for"
    /\ nQueries = 2
    /\ Len(history) = 3
    /\ ~db[Customers].exists
    /\ tool.call = <<>>

NoResultSetCall ==
    /\ tool.invoked
    /\ CalledTool = "execute_sql"
    /\ gate.bodyErr = "TypeError"
    /\ ~EnvironmentFailed

\* C20: execute_sql on a statement that executes and has no result set
\* returns the generic error string, closes the connection without a
\* commit and leaves the database as it was.
C20_NoResultSetIsError ==
    NoResultSetCall =>
        /\ tool.raised = NoErr
        /\ tool.msg.content = SqlErrorText
        /\ gate.connClosed
        /\ ~gate.commit
        /\ db = tool.dbBefore

====
